---- MODULE Spec2Model ----
(***************************************************************************)
(* Connection admission and reconnection of the session server.            *)
(*                                                                         *)
(*   src/unnamed/part_000  MainServer: upgrade handler, createProtocol,    *)
(*                         connect, the connection table                   *)
(*   src/src/connection.ts Connection, ManagementConnection,               *)
(*                         ExtensionHostConnection                         *)
(*                                                                         *)
(* Every upgrade request is one attempt, numbered in order of arrival.  A  *)
(* Connection object is identified by the number of the attempt whose      *)
(* connect() constructed it.  All callbacks run on one event loop, so each *)
(* action is one callback run to its next await or to its end.             *)
(***************************************************************************)
EXTENDS Naturals, Sequences, FiniteSets

\* Bounds of the model.
MaxAttempts == 2          \* upgrade requests received
MaxSocketCloses == 2      \* transport-closed events delivered, over all connections

Attempts == 1..MaxAttempts

Management == "Management"
ExtensionHost == "ExtensionHost"
Tunnel == "Tunnel"
\* A desiredConnectionType that is none of the enum's values.
OtherType == "Other"
ConnectionTypes == {Management, ExtensionHost, Tunnel, OtherType}

\* Query parameters of the upgrade URL; Absent is a missing parameter.
Absent == "undefined"
QueryTokens == {Absent, "", "a"}
QueryFlags == {Absent, "true", "false"}
UpgradeHeaders == {"websocket", "h2c"}
\* Bytes that reached the new Protocol beyond the handshake.
Buffers == {<<>>, <<1>>}

\* Results of an attempt.
Pending == "pending"
Admitted == "admitted"
Reconnected == "reconnected"
Tunneled == "tunneled"
BadRequest == "HTTP/1.1 400 Bad Request"
UnrecognizedToken == "Unrecognized reconnection token"
DuplicateToken == "Duplicate reconnection token"
UnrecognizedType == "Unrecognized connection type"

VARIABLES
  nAttempts,    \* upgrade requests received so far
  pc,           \* attempt -> "idle" | "handshake" | "debugPort" | "done"
  options,      \* attempt -> protocol.options
  inbuf,        \* attempt -> bytes buffered on its Protocol
  message,      \* attempt -> desiredConnectionType of its handshake ("" before)
  outcome,      \* attempt -> result of the attempt
  calls,        \* attempt -> what the upgrade listener called, in order
  unhandled,    \* attempts whose upgrade listener rejected with nothing to catch it
  clientConnected, \* attempt -> <<protocol, owner of the close event>> of each
                \* _onDidClientConnect.fire its connect() made
  connections,  \* MainServer.connections: type -> (token -> Connection)
  kind,         \* Connection -> "none" (not constructed) | Management | ExtensionHost
  disposed,     \* Connection.disposed
  timeout,      \* ManagementConnection.timeout: 0 is undefined, else the handle
  timers,       \* Connection -> handles of the timers that are pending
  nSocketCloses, \* transport-closed events delivered so far
  socket,       \* Connection -> attempt whose socket its protocol is using
  emitted,      \* ExtensionHostConnection -> events its process has emitted
  nSpawned,     \* processes forked so far; the next pid is nSpawned + 1
  process,      \* ExtensionHostConnection.process: its pid, 0 when there is none
  sent,         \* ExtensionHostConnection -> <<pid, socket, bytes>> of process.send
  listen,       \* ExtensionHostConnection -> its listen listener is registered
  reconnects,   \* Connection -> the reconnect(socket, buffer) calls it received
  accepted,     \* Connection -> <<socket, bytes>> of beginAcceptReconnection calls
  closeFired,   \* Connection -> number of times _onClose fired
  teardowns,    \* Connection -> number of times the disposal steps ran
  stale,        \* Connection -> pending timers started before its latest reconnect
  noop          \* Connection -> dispose() was called when already disposed

attemptVars == <<nAttempts, pc, options, inbuf, message, outcome, calls, unhandled,
                 clientConnected>>
timerVars == <<timeout, timers, stale, nSocketCloses>>
disposeVars == <<disposed, closeFired, teardowns, noop>>
connVars == <<kind, socket, emitted, reconnects, accepted, nSpawned, process, sent, listen>>
vars == <<attemptVars, connections, timerVars, disposeVars, connVars>>

----------------------------------------------------------------------------
\* Map<K, V> as a function on the set of its keys.

EmptyMap == [k \in {} |-> 0]
MapHas(m, k) == k \in DOMAIN m
MapSet(m, k, v) == [x \in DOMAIN m \cup {k} |-> IF x = k THEN v ELSE m[x]]
MapDelete(m, k) == [x \in DOMAIN m \ {k} |-> m[x]]

\* The (type, token) pairs that have an entry.
Tokens == {"", "a"}
Entries(table) == {<<ty, tok>> \in ConnectionTypes \X Tokens :
                     MapHas(table, ty) /\ MapHas(table[ty], tok)}

Init ==
  /\ nAttempts = 0
  /\ pc = [a \in Attempts |-> "idle"]
  /\ options = [a \in Attempts |-> [reconnectionToken |-> "", reconnection |-> FALSE]]
  /\ inbuf = [a \in Attempts |-> <<>>]
  /\ message = [a \in Attempts |-> ""]
  /\ outcome = [a \in Attempts |-> Pending]
  /\ calls = [a \in Attempts |-> <<>>]
  /\ unhandled = {}
  /\ clientConnected = [a \in Attempts |-> <<>>]
  /\ connections = EmptyMap
  /\ kind = [c \in Attempts |-> "none"]
  /\ disposed = [c \in Attempts |-> FALSE]
  /\ timeout = [c \in Attempts |-> 0]
  /\ timers = [c \in Attempts |-> {}]
  /\ nSocketCloses = 0
  /\ socket = [c \in Attempts |-> 0]
  /\ emitted = [c \in Attempts |-> {}]
  /\ nSpawned = 0
  /\ process = [c \in Attempts |-> 0]
  /\ sent = [c \in Attempts |-> <<>>]
  /\ listen = [c \in Attempts |-> FALSE]
  /\ reconnects = [c \in Attempts |-> <<>>]
  /\ accepted = [c \in Attempts |-> <<>>]
  /\ closeFired = [c \in Attempts |-> 0]
  /\ teardowns = [c \in Attempts |-> 0]
  /\ stale = [c \in Attempts |-> {}]
  /\ noop = [c \in Attempts |-> FALSE]

----------------------------------------------------------------------------
\* Timers.  Handles are numbered per connection in the order setTimeout
\* returns them; clearTimeout of undefined, or of a handle that has fired or
\* was cleared, does nothing.

clearTimeout(pend, handle) == pend \ {handle}

----------------------------------------------------------------------------
\* Connection: the close event and dispose().

\* fireClose with the listener of connect() leaving the table as it is.
fireCloseKeepsEntry(c) ==
  /\ closeFired' = [closeFired EXCEPT ![c] = @ + 1]
  /\ connections' = connections

\* fireClose deleting the token from the map of every connection type.
fireCloseAllTypes(c) ==
  /\ closeFired' = [closeFired EXCEPT ![c] = @ + 1]
  /\ connections' = [ty \in DOMAIN connections |->
                       MapDelete(connections[ty], options[c].reconnectionToken)]

\* _onClose.fire(): runs the listener connect() registered, which deletes the
\* connection's token from the map of its connection type.
fireClose(c) ==
  /\ closeFired' = [closeFired EXCEPT ![c] = @ + 1]
  /\ connections' = [connections EXCEPT
                       ![kind[c]] = MapDelete(@, options[c].reconnectionToken)]

\* ManagementDispose without the test of the disposed flag.
ManagementDisposeUnguarded(c, pend) ==
  /\ timers' = [timers EXCEPT ![c] = clearTimeout(pend, timeout[c])]
  /\ disposed' = [disposed EXCEPT ![c] = TRUE]
  /\ teardowns' = [teardowns EXCEPT ![c] = @ + 1]
  /\ fireClose(c)
  /\ noop' = noop

\* ManagementConnection.dispose(); pend is the set of pending timers when it
\* is called.
ManagementDispose(c, pend) ==
  IF ~disposed[c]
  THEN /\ timers' = [timers EXCEPT ![c] = clearTimeout(pend, timeout[c])]
       /\ disposed' = [disposed EXCEPT ![c] = TRUE]
       /\ teardowns' = [teardowns EXCEPT ![c] = @ + 1]
       /\ fireClose(c)
       /\ noop' = noop
  ELSE /\ timers' = [timers EXCEPT ![c] = pend]
       /\ noop' = [noop EXCEPT ![c] = TRUE]
       /\ UNCHANGED <<disposed, teardowns, closeFired, connections>>

\* ExtensionHostDispose without the test of the disposed flag.
ExtensionHostDisposeUnguarded(c) ==
  /\ disposed' = [disposed EXCEPT ![c] = TRUE]
  /\ teardowns' = [teardowns EXCEPT ![c] = @ + 1]
  /\ fireClose(c)
  /\ noop' = noop

\* ExtensionHostConnection.dispose(): kills the process, ends the socket.
ExtensionHostDispose(c) ==
  IF ~disposed[c]
  THEN /\ disposed' = [disposed EXCEPT ![c] = TRUE]
       /\ teardowns' = [teardowns EXCEPT ![c] = @ + 1]
       /\ fireClose(c)
       /\ noop' = noop
  ELSE /\ noop' = [noop EXCEPT ![c] = TRUE]
       /\ UNCHANGED <<disposed, teardowns, closeFired, connections>>

----------------------------------------------------------------------------
\* Events delivered to a constructed connection.

\* protocol.onSocketClose listener of ManagementConnection.
SocketClosed(c) ==
  /\ kind[c] = Management
  /\ nSocketCloses < MaxSocketCloses
  /\ nSocketCloses' = nSocketCloses + 1
  /\ timeout' = [timeout EXCEPT ![c] = @ + 1]
  /\ timers' = [timers EXCEPT ![c] = @ \cup {timeout[c] + 1}]
  /\ UNCHANGED <<attemptVars, connections, stale, disposeVars, connVars>>

\* protocol.onClose listener of ManagementConnection.
ProtocolClosed(c) ==
  /\ kind[c] = Management
  /\ ManagementDispose(c, timers[c])
  /\ UNCHANGED <<attemptVars, timeout, stale, nSocketCloses, connVars>>

\* TimerFires with a callback that does nothing.
TimerFiresIdle(c, handle) ==
  /\ handle \in timers[c]
  /\ timers' = [timers EXCEPT ![c] = @ \ {handle}]
  /\ stale' = [stale EXCEPT ![c] = @ \ {handle}]
  /\ UNCHANGED <<attemptVars, connections, timeout, nSocketCloses, disposeVars, connVars>>

\* The callback of a pending grace timer.
TimerFires(c, handle) ==
  /\ handle \in timers[c]
  /\ ManagementDispose(c, timers[c] \ {handle})
  /\ stale' = [stale EXCEPT ![c] = @ \ {handle}]
  /\ UNCHANGED <<attemptVars, timeout, nSocketCloses, connVars>>

\* proc.on("error") and proc.on("exit") listeners of ExtensionHostConnection.
ProcessEvent(c, ev) ==
  /\ kind[c] = ExtensionHost
  /\ ev \notin emitted[c]
  /\ emitted' = [emitted EXCEPT ![c] = @ \cup {ev}]
  /\ ExtensionHostDispose(c)
  /\ UNCHANGED <<attemptVars, timerVars, kind, socket, reconnects, accepted, nSpawned, process,
                 sent, listen>>

\* ExtensionHostTransportClosed with the listener of ManagementConnection's
\* protocol.onClose registered by ExtensionHostConnection too.
ExtensionHostTransportClosedDisposes(c) ==
  /\ kind[c] = ExtensionHost
  /\ nSocketCloses < MaxSocketCloses
  /\ nSocketCloses' = nSocketCloses + 1
  /\ ExtensionHostDispose(c)
  /\ UNCHANGED <<attemptVars, timeout, timers, stale, connVars>>

\* A socket-closed or protocol-closed event of the protocol of an
\* ExtensionHostConnection: its constructor registers no listener for either.
ExtensionHostTransportClosed(c) ==
  /\ kind[c] = ExtensionHost
  /\ nSocketCloses < MaxSocketCloses
  /\ nSocketCloses' = nSocketCloses + 1
  /\ UNCHANGED <<attemptVars, connections, timeout, timers, stale, disposeVars, connVars>>

----------------------------------------------------------------------------
\* reconnect(socket, buffer) of the connection c, called for attempt a.

\* ManagementReconnect that passes no bytes to beginAcceptReconnection, as
\* ExtensionHostConnection.reconnect does.
ManagementReconnectDropsBuffer(c, a, buffer) ==
  /\ timers' = [timers EXCEPT ![c] = clearTimeout(@, timeout[c])]
  /\ socket' = [socket EXCEPT ![c] = a]
  /\ reconnects' = [reconnects EXCEPT ![c] = Append(@, <<a, buffer>>)]
  /\ accepted' = [accepted EXCEPT ![c] = Append(@, <<a, <<>>>>)]
  /\ stale' = [stale EXCEPT ![c] = clearTimeout(timers[c], timeout[c])]
  /\ UNCHANGED <<timeout, nSocketCloses, emitted, nSpawned, process, sent, listen>>

ManagementReconnect(c, a, buffer) ==
  /\ timers' = [timers EXCEPT ![c] = clearTimeout(@, timeout[c])]
  /\ socket' = [socket EXCEPT ![c] = a]
  /\ reconnects' = [reconnects EXCEPT ![c] = Append(@, <<a, buffer>>)]
  /\ accepted' = [accepted EXCEPT ![c] = Append(@, <<a, buffer>>)]
  /\ stale' = [stale EXCEPT ![c] = clearTimeout(timers[c], timeout[c])]
  /\ UNCHANGED <<timeout, nSocketCloses, emitted, nSpawned, process, sent, listen>>

\* ExtensionHostConnection.spawn: forks the process of connection c and
\* registers the listen listener for its ready message.
spawn(c) ==
  /\ nSpawned' = nSpawned + 1
  /\ process' = [process EXCEPT ![c] = nSpawned + 1]
  /\ listen' = [listen EXCEPT ![c] = TRUE]

\* ExtensionHostConnection.sendInitMessage: process.send of the socket sock
\* the protocol holds and of the bytes, to the process pid.
sendInitMessage(c, pid, sock, buffer) ==
  sent' = [sent EXCEPT ![c] = Append(@, <<pid, sock, buffer>>)]

\* ExtensionHostReconnect that forks a new process for the new socket.
ExtensionHostReconnectRespawns(c, a, buffer) ==
  /\ socket' = [socket EXCEPT ![c] = a]
  /\ reconnects' = [reconnects EXCEPT ![c] = Append(@, <<a, buffer>>)]
  /\ accepted' = [accepted EXCEPT ![c] = Append(@, <<a, <<>>>>)]
  /\ spawn(c)
  /\ sendInitMessage(c, nSpawned + 1, a, buffer)
  /\ UNCHANGED <<timerVars, emitted>>

ExtensionHostReconnect(c, a, buffer) ==
  /\ socket' = [socket EXCEPT ![c] = a]
  /\ reconnects' = [reconnects EXCEPT ![c] = Append(@, <<a, buffer>>)]
  /\ accepted' = [accepted EXCEPT ![c] = Append(@, <<a, <<>>>>)]
  /\ sendInitMessage(c, process[c], a, buffer)
  /\ UNCHANGED <<timerVars, emitted, nSpawned, process, listen>>

\* What new ExtensionHostConnection(protocol, logService) binds to the
\* constructor's second parameter, buffer: the log service.  The constructor
\* takes (protocol, buffer, log), so the bytes the protocol holds are not
\* passed and log is undefined.  256 is no byte.
LogService == <<256>>

\* The results of sendInitMessage(buffer) reading buffer.buffer and calling
\* toString("base64") on it.  For bytes it is their encoding; for an object
\* that is no VSBuffer it depends on whether the object has a buffer field:
\* a TypeError before process.send, or a chunk made of that field.
initialDataChunk(buffer) ==
  IF buffer \in Buffers THEN {"sent"} ELSE {"sent", "TypeError"}

\* The listen listener of spawn() receiving the ready message of the process:
\* it removes itself and calls sendInitMessage with the buffer spawn() was
\* given, on the socket the protocol holds now.  It does not look at the
\* disposed flag, and a message the process wrote before it was killed is
\* delivered after the disposal.
Ready(c, result) ==
  /\ kind[c] = ExtensionHost
  /\ listen[c]
  /\ result \in initialDataChunk(LogService)
  /\ listen' = [listen EXCEPT ![c] = FALSE]
  /\ IF result = "sent"
     THEN sendInitMessage(c, process[c], socket[c], LogService)
     ELSE sent' = sent
  /\ UNCHANGED <<attemptVars, connections, timerVars, disposeVars, kind, socket, emitted,
                 reconnects, accepted, nSpawned, process>>

reconnect(c, a, buffer) ==
  IF kind[c] = Management
  THEN ManagementReconnect(c, a, buffer)
  ELSE ExtensionHostReconnect(c, a, buffer)

----------------------------------------------------------------------------
\* MainServer.

\* createProtocol: the options parsed from the query string.  A parameter
\* that is missing or empty leaves the default.
createProtocol(qToken, qReconnection) ==
  [reconnectionToken |-> IF qToken \in {Absent, ""} THEN "" ELSE qToken,
   reconnection |-> (qReconnection = "true")]

\* The upgrade listener up to its first await.  createProtocol throws on a
\* wrong upgrade header before the try block is entered.
Upgrade(header, qToken, qReconnection, bytes) ==
  /\ nAttempts < MaxAttempts
  /\ nAttempts' = nAttempts + 1
  /\ LET a == nAttempts + 1 IN
     IF header # "websocket"
     THEN /\ pc' = [pc EXCEPT ![a] = "done"]
          /\ outcome' = [outcome EXCEPT ![a] = BadRequest]
          /\ unhandled' = unhandled \cup {a}
          /\ UNCHANGED <<options, inbuf>>
     ELSE /\ pc' = [pc EXCEPT ![a] = "handshake"]
          /\ options' = [options EXCEPT ![a] = createProtocol(qToken, qReconnection)]
          /\ inbuf' = [inbuf EXCEPT ![a] = bytes]
          /\ UNCHANGED <<outcome, unhandled>>
  /\ UNCHANGED <<message, calls, clientConnected, connections, timerVars, disposeVars, connVars>>

\* What connect() and the catch of the upgrade listener call on the protocol
\* of an attempt that does not reach the table.
handshakeCalls(ty) ==
  IF ty = Tunnel THEN <<"tunnel">> ELSE <<"throw", "disposeError">>

\* HandshakeDone with the Tunnel case grouped with the two table types.
HandshakeDoneTunnelAdmits(a, ty) ==
  /\ pc[a] = "handshake"
  /\ message' = [message EXCEPT ![a] = ty]
  /\ IF ty \in {ExtensionHost, Management, Tunnel}
     THEN /\ pc' = [pc EXCEPT ![a] = "debugPort"]
          /\ outcome' = outcome
          /\ inbuf' = inbuf
          /\ calls' = calls
     ELSE /\ pc' = [pc EXCEPT ![a] = "done"]
          /\ outcome' = [outcome EXCEPT ![a] = UnrecognizedType]
          /\ inbuf' = [inbuf EXCEPT ![a] = <<>>]
          /\ calls' = [calls EXCEPT ![a] = handshakeCalls(ty)]
  /\ UNCHANGED <<nAttempts, options, unhandled, clientConnected, connections, timerVars,
                 disposeVars, connVars>>

\* protocol.handshake() resolves with desiredConnectionType ty and connect()
\* runs to its await of getDebugPort, to protocol.tunnel() or to its throw.
HandshakeDone(a, ty) ==
  /\ pc[a] = "handshake"
  /\ message' = [message EXCEPT ![a] = ty]
  /\ IF ty \in {ExtensionHost, Management}
     THEN /\ pc' = [pc EXCEPT ![a] = "debugPort"]
          /\ outcome' = outcome
          /\ inbuf' = inbuf
          /\ calls' = calls
     ELSE /\ pc' = [pc EXCEPT ![a] = "done"]
          /\ outcome' = [outcome EXCEPT ![a] =
                           IF ty = Tunnel THEN Tunneled ELSE UnrecognizedType]
          /\ inbuf' = [inbuf EXCEPT ![a] = <<>>]
          /\ calls' = [calls EXCEPT ![a] = handshakeCalls(ty)]
  /\ UNCHANGED <<nAttempts, options, unhandled, clientConnected, connections, timerVars,
                 disposeVars, connVars>>

\* Admission without the test for a token that is already present.
AdmissionNoDuplicateCheck(reconnection, has) ==
  IF reconnection /\ has THEN Reconnected
  ELSE IF reconnection THEN UnrecognizedToken ELSE Admitted

\* Admission without the test for a reconnection whose token is unknown.
AdmissionReconnectCreates(reconnection, has) ==
  IF reconnection /\ has THEN Reconnected
  ELSE IF has THEN DuplicateToken ELSE Admitted

\* Admission that reconnects on a present token whatever the flag says.
AdmissionIgnoresFlag(reconnection, has) ==
  IF has THEN Reconnected
  ELSE IF reconnection THEN UnrecognizedToken ELSE Admitted

\* Admission that constructs a new connection for a reconnection.
AdmissionReplaces(reconnection, has) ==
  IF reconnection /\ ~has THEN UnrecognizedToken
  ELSE IF ~reconnection /\ has THEN DuplicateToken ELSE Admitted

\* The two token checks of connect(), in the order the code makes them.
Admission(reconnection, has) ==
  IF reconnection /\ has THEN Reconnected
  ELSE IF reconnection \/ has
       THEN (IF reconnection THEN UnrecognizedToken ELSE DuplicateToken)
       ELSE Admitted

\* connectCalls with the acknowledgement sent before the token checks.
connectCallsAckFirst(decision) ==
  IF decision = Reconnected
  THEN <<"sendMessage", "readEntireBuffer", "dispose", "reconnect">>
  ELSE IF decision = Admitted
  THEN <<"sendMessage", "construct", "set", "onClose">>
  ELSE <<"sendMessage", "throw", "disposeError">>

\* What connect() and the catch of the upgrade listener call, in order, for
\* each result of the token checks.
connectCalls(decision) ==
  IF decision = Reconnected
  THEN <<"sendMessage", "readEntireBuffer", "dispose", "reconnect">>
  ELSE IF decision = Admitted
  THEN <<"sendMessage", "construct", "set", "onClose">>
  ELSE <<"throw", "disposeError">>

\* clientConnectSignal firing for every connection type.
clientConnectSignalAnyType(ty, a) == <<(<<a, a>>)>>

\* The _onDidClientConnect.fire calls of connect() when it constructs the
\* connection of attempt a: the event carries the protocol of the attempt and
\* the onClose event of the connection just constructed from it.
clientConnectSignal(ty, a) ==
  IF ty = Management THEN <<(<<a, a>>)>> ELSE <<>>

\* connect() from the return of getDebugPort to its end: one synchronous run.
connect(a) ==
  /\ pc[a] = "debugPort"
  /\ LET ty == message[a]
         table == IF MapHas(connections, ty)
                  THEN connections
                  ELSE MapSet(connections, ty, EmptyMap)
         conns == table[ty]
         token == options[a].reconnectionToken
         decision == Admission(options[a].reconnection, MapHas(conns, token))
     IN
     /\ pc' = [pc EXCEPT ![a] = "done"]
     /\ outcome' = [outcome EXCEPT ![a] = decision]
     /\ calls' = [calls EXCEPT ![a] = connectCalls(decision)]
     /\ inbuf' = [inbuf EXCEPT ![a] = <<>>]
     /\ IF decision = Reconnected
        THEN /\ connections' = table
             /\ reconnect(conns[token], a, inbuf[a])
             /\ UNCHANGED <<kind, disposeVars, clientConnected>>
        ELSE IF decision = Admitted
        THEN /\ kind' = [kind EXCEPT ![a] = ty]
             /\ clientConnected' = [clientConnected EXCEPT
                                      ![a] = @ \o clientConnectSignal(ty, a)]
             /\ socket' = [socket EXCEPT ![a] = a]
             /\ connections' = MapSet(table, ty, MapSet(conns, token, a))
             /\ IF ty = ExtensionHost
                THEN spawn(a)
                ELSE UNCHANGED <<nSpawned, process, listen>>
             /\ UNCHANGED <<timerVars, disposeVars, emitted, reconnects, accepted, sent>>
        ELSE /\ connections' = table
             /\ UNCHANGED <<timerVars, disposeVars, connVars, clientConnected>>
  /\ UNCHANGED <<nAttempts, options, message, unhandled>>

----------------------------------------------------------------------------
Next ==
  \/ \E h \in UpgradeHeaders, t \in QueryTokens, r \in QueryFlags, b \in Buffers :
       Upgrade(h, t, r, b)
  \/ \E a \in Attempts, ty \in ConnectionTypes : HandshakeDone(a, ty)
  \/ \E a \in Attempts : connect(a)
  \/ \E c \in Attempts : SocketClosed(c)
  \/ \E c \in Attempts : ProtocolClosed(c)
  \/ \E c \in Attempts : ExtensionHostTransportClosed(c)
  \/ \E c \in Attempts, h \in 1..MaxSocketCloses : TimerFires(c, h)
  \/ \E c \in Attempts, ev \in {"error", "exit"} : ProcessEvent(c, ev)
  \/ \E c \in Attempts, result \in {"sent", "TypeError"} : Ready(c, result)

Spec == Init /\ [][Next]_vars

\* The event loop runs the callback of a timer that stays pending: a timer
\* that was started and is not cleared does fire.
FairSpec ==
  Spec /\ \A c \in Attempts, h \in 1..MaxSocketCloses : WF_vars(TimerFires(c, h))

----------------------------------------------------------------------------
\* Vocabulary of the properties.

TableTypes == {Management, ExtensionHost}

\* The table maps (type, token) of connection c to c.
InTable(c) ==
  /\ MapHas(connections, kind[c])
  /\ MapHas(connections[kind[c]], options[c].reconnectionToken)
  /\ connections[kind[c]][options[c].reconnectionToken] = c

\* The Connection objects for (ty, tok) that have not closed.
Live(ty, tok) ==
  {c \in Attempts : kind[c] = ty /\ options[c].reconnectionToken = tok /\ ~disposed[c]}

\* This step is the synchronous part of connect() for attempt a.
Resumes(a) == pc[a] = "debugPort" /\ pc'[a] = "done"

\* The (type, token) of attempt a has an entry when connect() looks it up.
Present(a) == <<message[a], options[a].reconnectionToken>> \in Entries(connections)

\* The connection stored under the (type, token) of attempt a.
Existing(a) == connections[message[a]][options[a].reconnectionToken]

\* Everything the model holds of connection c is the same after the step.
SameConnection(c) ==
  /\ kind'[c] = kind[c]
  /\ disposed'[c] = disposed[c]
  /\ timeout'[c] = timeout[c]
  /\ timers'[c] = timers[c]
  /\ socket'[c] = socket[c]
  /\ emitted'[c] = emitted[c]
  /\ reconnects'[c] = reconnects[c]
  /\ closeFired'[c] = closeFired[c]
  /\ teardowns'[c] = teardowns[c]
  /\ noop'[c] = noop[c]
  /\ process'[c] = process[c]
  /\ listen'[c] = listen[c]
  /\ sent'[c] = sent[c]
  /\ accepted'[c] = accepted[c]

----------------------------------------------------------------------------
\* C1: in every reachable state and for every connection type and token,
\* at most one Connection constructed for that (type, token) is live (not
\* yet closed), whatever the interleaving of the attempts that use the token.
OneLivePerToken ==
  \A ty \in ConnectionTypes, tok \in Tokens : Cardinality(Live(ty, tok)) <= 1

\* An earlier attempt is still suspended at the debug-port await while a later
\* attempt with the same type and token has been admitted and is live.
RaceOnToken ==
  \E a, b \in Attempts :
    /\ b < a
    /\ pc[b] = "debugPort"
    /\ ~options[b].reconnection
    /\ kind[a] = message[b]
    /\ options[a].reconnectionToken = options[b].reconnectionToken
    /\ ~disposed[a]
    /\ InTable(a)

\* C2: an attempt with reconnection=true whose token has no entry for its
\* type when connect() looks it up fails with "Unrecognized reconnection
\* token", and the table has the same (type, token) entries afterwards.
UnrecognizedReconnection ==
  [][\A a \in Attempts :
       (Resumes(a) /\ options[a].reconnection /\ ~Present(a))
         => /\ outcome'[a] = UnrecognizedToken
            /\ Entries(connections') = Entries(connections)]_vars

UnrecognizedSeen ==
  \E a \in Attempts :
    /\ outcome[a] = UnrecognizedToken
    /\ message[a] \in TableTypes
    /\ options[a].reconnection

\* C3: an attempt with reconnection=false whose token has an entry for its
\* type fails with "Duplicate reconnection token"; the connection stored
\* there keeps its entry, socket, timers, process events and disposed flag,
\* and receives no reconnect and no dispose call.
DuplicateRejected ==
  [][\A a \in Attempts :
       (Resumes(a) /\ ~options[a].reconnection /\ Present(a))
         => /\ outcome'[a] = DuplicateToken
            /\ connections' = connections
            /\ kind' = kind
            /\ SameConnection(Existing(a))]_vars

\* A duplicate was rejected while the existing connection was in its grace
\* period, and its timer is still pending.
DuplicateSeen ==
  \E a, c \in Attempts :
    /\ outcome[a] = DuplicateToken
    /\ c # a
    /\ kind[c] = message[a]
    /\ options[c].reconnectionToken = options[a].reconnectionToken
    /\ InTable(c)
    /\ timers[c] # {}

\* C4: an attempt with reconnection=true whose token has an entry calls
\* reconnect on the connection stored there, with the socket of the attempt
\* and the bytes buffered on its Protocol; no Connection is constructed and
\* the table maps (type, token) to the same connection afterwards.
ReconnectRoutedToExisting ==
  [][\A a \in Attempts :
       (Resumes(a) /\ options[a].reconnection /\ Present(a))
         => /\ outcome'[a] = Reconnected
            /\ reconnects'[Existing(a)] =
                 Append(reconnects[Existing(a)], <<a, inbuf[a]>>)
            /\ socket'[Existing(a)] = a
            /\ kind' = kind
            /\ connections' = connections]_vars

\* A connection has received a reconnect that carried buffered bytes.
ReconnectSeen ==
  \E c \in Attempts :
    /\ kind[c] \in TableTypes
    /\ Len(reconnects[c]) > 0
    /\ reconnects[c][1][2] # <<>>
    /\ InTable(c)

\* C5: a constructed Connection is in the table exactly as long as it is not
\* disposed, and it leaves the table when its close event fires.
EntryWhileLive ==
  \A c \in Attempts :
    kind[c] # "none" =>
      /\ InTable(c) <=> ~disposed[c]
      /\ InTable(c) <=> closeFired[c] = 0

\* A disposed connection has left the table and a later connection lives
\* under the same (type, token).
EntryReused ==
  \E c, d \in Attempts :
    /\ c # d
    /\ kind[c] # "none"
    /\ kind[d] = kind[c]
    /\ options[d].reconnectionToken = options[c].reconnectionToken
    /\ disposed[c]
    /\ ~InTable(c)
    /\ InTable(d)

\* C6: an attempt whose desired connection type is Tunnel constructs no
\* Connection and leaves the table and every connection as they are; the
\* table never has a map for the Tunnel type.
TunnelBypassesTable ==
  /\ [](/\ ~MapHas(connections, Tunnel)
        /\ \A a \in Attempts : message[a] = Tunnel => kind[a] = "none")
  /\ [][\A a \in Attempts :
          (message'[a] = Tunnel /\ pc[a] # "done" /\ pc'[a] = "done")
            => UNCHANGED <<connections, timerVars, disposeVars, connVars>>]_vars

\* After a Tunnel request with some token, a reconnection with the same token
\* was rejected as unrecognized.
TunnelThenUnrecognized ==
  \E a, b \in Attempts :
    /\ a < b
    /\ outcome[a] = Tunneled
    /\ options[a].reconnectionToken = options[b].reconnectionToken
    /\ outcome[b] = UnrecognizedToken

\* C7: a ManagementConnection has at most one pending grace timer in every
\* reachable state, and none is left pending when reconnect() returns.
AtMostOneTimer ==
  \A c \in Attempts :
    kind[c] = Management => Cardinality(timers[c]) <= 1 /\ stale[c] = {}

\* C8: a ManagementConnection that was reconnected is never disposed by a
\* grace timer that was started before that reconnect.
NoStaleTimerDisposal ==
  [][\A c \in Attempts :
       (kind[c] = Management /\ ~disposed[c] /\ disposed'[c])
         => stale'[c] = stale[c]]_vars

\* C9: a ManagementConnection fires its close event at most once and runs
\* its disposal steps at most once, whatever triggers call dispose().
CloseAtMostOnce ==
  \A c \in Attempts :
    kind[c] = Management => closeFired[c] <= 1 /\ teardowns[c] <= 1

\* A disposed ManagementConnection whose socket closed, and on which dispose()
\* was called again, with no timer left pending.
LateDisposeSeen ==
  \E c \in Attempts :
    /\ kind[c] = Management
    /\ closeFired[c] = 1
    /\ teardowns[c] = 1
    /\ noop[c]
    /\ timeout[c] > 0
    /\ timers[c] = {}

\* C10: a protocol-closed event on a ManagementConnection that is not
\* disposed disposes it in that step: the close event fires, the table entry
\* is removed and no grace timer is left pending.
ProtocolCloseDisposes ==
  [][\A c \in Attempts :
       (ProtocolClosed(c) /\ ~disposed[c])
         => /\ disposed'[c]
            /\ closeFired'[c] = closeFired[c] + 1
            /\ ~InTable(c)'
            /\ timers'[c] = {}]_vars

\* C11: an ExtensionHostConnection is disposed, has its process killed and
\* loses its table entry only in a step in which its process emits error or
\* exit; it never has a timer, so no socket-closed event, protocol-closed
\* event, reconnect or elapse of time does any of these.
OnlyProcessEventsDispose ==
  /\ [](\A c \in Attempts : kind[c] = ExtensionHost => timers[c] = {})
  /\ [][\A c \in Attempts :
          (/\ kind[c] = ExtensionHost
           /\ \/ disposed'[c] # disposed[c]
              \/ teardowns'[c] # teardowns[c]
              \/ closeFired'[c] # closeFired[c]
              \/ InTable(c) /\ ~InTable(c)')
            => emitted'[c] # emitted[c]]_vars

\* An ExtensionHostConnection lost its transport, was reconnected, and is
\* live in the table with its process having emitted nothing.
TransportDropSurvived ==
  \E c \in Attempts :
    /\ kind[c] = ExtensionHost
    /\ \A d \in Attempts : kind[d] # Management
    /\ nSocketCloses > 0
    /\ Len(reconnects[c]) > 0
    /\ emitted[c] = {}
    /\ ~disposed[c]
    /\ InTable(c)

\* C12: an ExtensionHostConnection forks its process once, when it is
\* constructed; the pid it holds never changes afterwards, and every
\* reconnect sends that process exactly one initialization message with the
\* socket and the bytes of that reconnect.
ProcessSurvivesReconnects ==
  /\ [](/\ \A c \in Attempts : kind[c] = ExtensionHost <=> process[c] # 0
        /\ Cardinality({c \in Attempts : kind[c] = ExtensionHost}) = nSpawned
        /\ \A c, d \in Attempts :
              (c # d /\ process[c] # 0) => process[c] # process[d])
  /\ [][\A c \in Attempts :
          kind[c] = ExtensionHost =>
            /\ process'[c] = process[c]
            /\ reconnects'[c] # reconnects[c] =>
                 /\ Len(reconnects'[c]) = Len(reconnects[c]) + 1
                 /\ sent'[c] =
                      Append(sent[c],
                             <<process[c],
                               reconnects'[c][Len(reconnects'[c])][1],
                               reconnects'[c][Len(reconnects'[c])][2]>>)]_vars

\* An ExtensionHostConnection was reconnected with buffered bytes and its
\* process received them with the socket of the reconnecting attempt.
InitMessageResent ==
  \E c, a \in Attempts :
    /\ kind[c] = ExtensionHost
    /\ a # c
    /\ reconnects[c] = <<(<<a, <<1>>>>)>>
    /\ sent[c] = <<(<<process[c], a, <<1>>>>)>>
    /\ socket[c] = a

\* C13: in the step in which the process of an ExtensionHostConnection
\* emits error or exit the connection is disposed, with its process killed
\* and its socket ended once, its close event fired once and its table entry
\* removed; a second process event runs none of this again.
ProcessEventDisposes ==
  /\ [](\A c \in Attempts :
          kind[c] = ExtensionHost => closeFired[c] <= 1 /\ teardowns[c] <= 1)
  /\ [][\A c \in Attempts :
          (kind[c] = ExtensionHost /\ emitted'[c] # emitted[c])
            => /\ disposed'[c]
               /\ teardowns'[c] = 1
               /\ closeFired'[c] = 1
               /\ ~InTable(c)']_vars

\* A process emitted both error and exit, with no reconnect and no transport
\* event before, and its connection was disposed once.
BothProcessEvents ==
  \E c \in Attempts :
    /\ kind[c] = ExtensionHost
    /\ emitted[c] = {"error", "exit"}
    /\ reconnects[c] = <<>>
    /\ nSocketCloses = 0
    /\ disposed[c]
    /\ closeFired[c] = 1
    /\ teardowns[c] = 1
    /\ noop[c]
    /\ ~InTable(c)

\* The sockets handed to the protocol of connection c by a reconnect.
AcceptedSockets(c) == {accepted[c][i][1] : i \in 1..Len(accepted[c])}

ClosedWithError(a) ==
  \E i \in 1..Len(calls[a]) : calls[a][i] = "disposeError"

Rejections == {UnrecognizedToken, DuplicateToken, UnrecognizedType, BadRequest}

\* C15: every rejected attempt (unrecognized token, duplicate token,
\* unrecognized connection type, wrong upgrade header) has its upgrade socket
\* closed with an error, and its rejection is caught by the listener.
RejectedSocketClosed ==
  \A a \in Attempts :
    outcome[a] \in Rejections => ClosedWithError(a) /\ a \notin unhandled

\* The (type, token) an attempt, and the connection it constructs, is for.
SessionKey(a) == <<message[a], options[a].reconnectionToken>>

\* The connection stored under (type, token) k, 0 when there is none.
EntryOf(table, k) ==
  IF MapHas(table, k[1]) /\ MapHas(table[k[1]], k[2]) THEN table[k[1]][k[2]] ELSE 0

\* The (type, token) pairs whose table entry or whose connection is not the
\* same after the step.
Touched ==
  {SessionKey(c) : c \in {d \in Attempts : ~SameConnection(d)}}
    \cup (IF connections' = connections
          THEN {}
          ELSE {k \in ConnectionTypes \X Tokens :
                  EntryOf(connections', k) # EntryOf(connections, k)})

\* C16: an event of the session (type, t) leaves the table entry and the
\* state of the connection of every other (type', t') as they were; the same
\* token under the other connection type is another session, so a new
\* attempt is admitted whenever its own (type, t) has no entry.
SessionsIndependent ==
  [][LET touched == Touched IN
     /\ Cardinality(touched) <= 1
     /\ \A a \in Attempts :
          Resumes(a) =>
            /\ touched \subseteq {SessionKey(a)}
            /\ (~options[a].reconnection /\ ~Present(a)) => outcome'[a] = Admitted]_vars

\* The same token is live under both connection types, the Management one has
\* lost its socket and the ExtensionHost one is as it was constructed.
SameTokenBothTypes ==
  \E c, d \in Attempts :
    /\ kind[c] = Management /\ kind[d] = ExtensionHost
    /\ options[c].reconnectionToken = options[d].reconnectionToken
    /\ InTable(c) /\ InTable(d)
    /\ timers[c] # {}
    /\ ~disposed[d] /\ emitted[d] = {} /\ reconnects[d] = <<>>

\* C17: when the socket of a ManagementConnection has closed and no reconnect
\* for its token is admitted afterwards, the connection is eventually disposed
\* with its close event fired and its table entry removed; and once it is, a
\* new attempt with the same token that is not a reconnection is admitted.
GraceExpiryFreesToken ==
  /\ \A c \in Attempts, n \in 0..(MaxAttempts - 1) :
       (kind[c] = Management /\ timers[c] # {} /\ Len(reconnects[c]) = n)
         ~> \/ disposed[c] /\ closeFired[c] = 1 /\ ~InTable(c)
            \/ Len(reconnects[c]) > n
  /\ [][\A a \in Attempts :
          (/\ Resumes(a) /\ ~options[a].reconnection
           /\ Live(message[a], options[a].reconnectionToken) = {}
           /\ \E c \in Attempts :
                /\ kind[c] = Management /\ disposed[c]
                /\ SessionKey(c) = SessionKey(a))
            => outcome'[a] = Admitted]_vars

\* A ManagementConnection whose socket closed and that was never reconnected
\* is disposed and out of the table, and a later attempt with its token that
\* is not a reconnection was admitted in its place.
SuccessorAdmitted ==
  \E c, d \in Attempts :
    /\ kind[c] = Management /\ kind[d] = Management
    /\ timeout[c] # 0 /\ timers[c] = {} /\ reconnects[c] = <<>>
    /\ disposed[c] /\ closeFired[c] = 1 /\ ~InTable(c)
    /\ SessionKey(c) = SessionKey(d)
    /\ ~options[d].reconnection /\ outcome[d] = Admitted
    /\ InTable(d) /\ ~disposed[d]

\* C18: the client-connected signal is fired exactly once by the attempt that
\* newly admits a Management connection, with the protocol of that attempt and
\* the close event of that connection, and by no other attempt (reconnect,
\* rejection, ExtensionHost, Tunnel); the close event it carries fires at most
\* once.
ClientConnectedOncePerManagement ==
  \A a \in Attempts :
    /\ clientConnected[a] =
         IF outcome[a] = Admitted /\ message[a] = Management
         THEN <<(<<a, a>>)>>
         ELSE <<>>
    /\ kind[a] = Management => closeFired[a] <= 1

\* A Management connection was admitted and signalled, was reconnected by an
\* attempt that signalled nothing, and has closed with its close event fired.
SignalledThenResumedAndClosed ==
  \E c, a \in Attempts :
    /\ kind[c] = Management /\ clientConnected[c] = <<(<<c, c>>)>>
    /\ outcome[a] = Reconnected /\ reconnects[c] # <<>> /\ socket[c] = a
    /\ clientConnected[a] = <<>>
    /\ disposed[c] /\ closeFired[c] = 1

\* The positions in the calls of attempt a at which it calls what.
CallsOf(a, what) == {i \in 1..Len(calls[a]) : calls[a][i] = what}

\* C19: an attempt that is admitted, as a new connection or as a reconnect,
\* sends the acknowledgement on its protocol exactly once, before the
\* connection is constructed or reconnect is called; an attempt rejected for
\* an unrecognized token, a duplicate token or an unrecognized type sends none.
AcknowledgedOnceBeforeUse ==
  \A a \in Attempts :
    /\ outcome[a] \in {Admitted, Reconnected} =>
         /\ Cardinality(CallsOf(a, "sendMessage")) = 1
         /\ CallsOf(a, "construct") \cup CallsOf(a, "reconnect") # {}
         /\ \A i \in CallsOf(a, "sendMessage"),
               j \in CallsOf(a, "construct") \cup CallsOf(a, "reconnect") : i < j
    /\ outcome[a] \in {UnrecognizedToken, DuplicateToken, UnrecognizedType} =>
         CallsOf(a, "sendMessage") = {}

\* One attempt was admitted as a new connection and acknowledged, and another
\* was rejected and closed with its error.
AcknowledgedAndRejected ==
  \E a, b \in Attempts :
    /\ outcome[a] = Admitted /\ CallsOf(a, "sendMessage") = {1}
    /\ outcome[b] \in {UnrecognizedToken, DuplicateToken, UnrecognizedType}
    /\ ClosedWithError(b)

\* C20: an attempt with reconnection=true and an empty or absent
\* reconnectionToken is never admitted as a reconnect, also when a session
\* admitted without a token is live under the empty token.
EmptyTokenNeverResumes ==
  \A a \in Attempts :
    (options[a].reconnection /\ options[a].reconnectionToken = "")
      => outcome[a] # Reconnected

\* C21: an ExtensionHostConnection sends an initialization message to its
\* process only once the ready message of the process has been received,
\* that is when its listen listener has run, whatever the order of the ready
\* message and the reconnect calls.
InitMessageAfterReady ==
  [][\A c \in Attempts :
       (kind'[c] = ExtensionHost /\ sent'[c] # sent[c]) => ~listen'[c]]_vars

\* C22: in every initialization message an ExtensionHostConnection sends,
\* the payload is bytes received on the socket sent with it: the buffer the
\* connection was constructed with goes only with the socket of its
\* admission, and a message with the socket of a reconnect carries the buffer
\* of that reconnect.
PayloadOfItsSocket ==
  \A c \in Attempts :
    \A i \in 1..Len(sent[c]) :
      /\ sent[c][i][3] \in Buffers
      /\ \/ sent[c][i][2] = c
         \/ \E j \in 1..Len(reconnects[c]) :
              reconnects[c][j] = <<sent[c][i][2], sent[c][i][3]>>

\* C23: a disposed ExtensionHostConnection sends no initialization message
\* and hands no socket to its process, also when the ready message of the
\* process is delivered after the disposal.
NoInitMessageAfterDispose ==
  [][\A c \in Attempts :
       (kind[c] = ExtensionHost /\ disposed[c]) => sent'[c] = sent[c]]_vars

====
